---- MODULE Spec2Model ----
(***************************************************************************)
(* Voice engine of voice-platform: the per-call VoiceSession (session.ts)  *)
(* and the /ws/:callId handler, session registry, POST /sessions/:id/end   *)
(* and SIGINT handler of the engine's index.ts.                            *)
(*                                                                         *)
(* Node runs every handler to its next `await` without interruption, so    *)
(* each action below is one such run: from an arriving event (a socket     *)
(* frame, a timer, an HTTP request, a signal) or from the return of an     *)
(* awaited call (database, STT, LLM, TTS, tool server) to the next await.  *)
(* A continuation after an await of an already settled promise runs in     *)
(* the same microtask drain and is folded into the action that settles it. *)
(***************************************************************************)
EXTENDS Integers, Sequences, FiniteSets, TLC

\* ------------------------------------------------------------------ bounds
MaxConns == 2        \* WebSocket connections opened for the one call id
MaxTurns == 2        \* user turns (processUserSpeech pipelines) per session
MaxFrames == 3       \* binary audio frames a client sends per connection
MaxSpeechFrames == 6  \* binary audio frames of a client that goes on talking
MaxTicks == 1        \* clock ticks observed
MaxLlmRounds == 2    \* LLM invocations within one user turn
EndInvCap == 2       \* end() invocations are counted 0, 1, .., EndInvCap (saturating)
MaxDests == 2        \* transfer destinations an LLM can name: 1 .. MaxDests
MaxTranscriptLen == 2   \* characters of a transcript
MaxSteps == 5        \* fine clock steps observed while a user is silent
MaxCallbacks == 2    \* carrier webhooks handled
StepMs == 300        \* length of a fine clock step, in ms
T0 == 1000           \* Date.now() of the first observed instant (never 0)
TickMs == 1000       \* granularity of the observed clock, in ms

\* -------------------------------------------------------- program constants
SilenceCapMs == 1200          \* Math.min(this.assistant.silenceTimeoutMs, 1200)
VadThreshold == 200           \* return avgEnergy > 200

Conns == 1..MaxConns
Turns == 1..MaxTurns
NoSession == 0

\* The assistant rows a call can be configured with (inputs, see Assistant in
\* the shared types): firstMessage set or not, interruptionEnabled,
\* silenceTimeoutMs below and above the cap, maxCallDurationSeconds.
FirstMessageModes == {"assistant-speaks-first", "assistant-waits-for-user"}

\* firstMessageMode is the default of the assistant routes' schema here, any
\* of FirstMessageModes in AssistantsAnyMode
Assistants ==
  [ firstMessage : BOOLEAN,
    firstMessageMode : {"assistant-speaks-first"},
    interruptionEnabled : BOOLEAN,
    silenceTimeoutMs : {600, 1800},
    maxCallDurationSeconds : {1} ]

AssistantsAnyMode ==
  {[a EXCEPT !.firstMessageMode = m] : a \in Assistants, m \in FirstMessageModes}

\* Audio frames a client sends, as their 16-bit samples: silence and speech.
AudioFrames == { <<0, 0>>, <<300, -300>> }

\* The transcripts stt.transcribe returns: strings of blanks and letters
\* (the providers return '' for no result)
Chars == {" ", "a"}
Transcripts == UNION {[1..n -> Chars] : n \in 0..MaxTranscriptLen}

\* An argument the LLM left out of a tool call (`undefined` when read)
Undefined == 0

\* The arguments of a transferCall tool call: the declared `destination`, and
\* `number`, each present or left out.
TransferArgs == [destination : 0..MaxDests, number : 0..MaxDests]

\* What the tool definition asks for: required: ['destination']
DeclaredTransferArgs == [destination |-> 1, number |-> Undefined]

\* What an LLM response can be: text content, nothing, or a list of tool calls.
ToolCallLists ==
  { <<"fn">>, <<"endCall">>, <<"transferCall">>, <<"endCall", "fn">> }
TextResponses ==
  { [content |-> TRUE, toolCalls |-> <<>>], [content |-> FALSE, toolCalls |-> <<>>] }
LlmResponses ==
  TextResponses \cup { [content |-> FALSE, toolCalls |-> l] : l \in ToolCallLists }

VARIABLES
  now,        \* Date.now()
  procUp,     \* the engine process is running
  assistant,  \* the assistant row of the call (read-only input)
  call,       \* the Call row of the one call id
  sessions,   \* registry: the connection whose session sessions.get(callId) returns
  shutdown,   \* position of the SIGINT handler
  sess,       \* per connection: socket, handler position and VoiceSession
  carrier     \* telephony routes: webhook in flight, rows created, replies

vars == <<now, procUp, assistant, call, sessions, shutdown, sess, carrier>>

\* ------------------------------------------------------------------ helpers
Floor1000(ms) == ms \div 1000

\* no cap: the first argument
Min_First(a, b) == a

Min(a, b) == IF a < b THEN a ELSE b

Sat(n) == IF n < EndInvCap THEN n + 1 ELSE n

\* A run of processUserSpeech; endCalled and transferred observe that the run
\* has handled an endCall / a transferCall tool call.
NewTurn ==
  [pc |-> "unused", sid |-> 0, calls |-> <<>>, rounds |-> 0,
   xargs |-> DeclaredTransferArgs,   \* toolCall.arguments of a transferCall
   blank |-> FALSE,                  \* its transcript had no character but blanks
   invoked |-> 0,                    \* calls of generateResponse
   loops |-> 0,                      \* tool call loops of generateResponse run to their end
   timestampMs |-> 0,                \* of the CallMessage it is writing
   appended |-> 0,                   \* responses whose last tool call was executed
                                     \* and its result appended to the history
   endCalled |-> FALSE, transferred |-> FALSE]

\* A connection before it is opened; the VoiceSession fields hold the values of
\* the class's field initialisers.
NewConn ==
  [ socket |-> "none",          \* none | open | closing | closed (ws readyState)
    serverClosed |-> FALSE,     \* the server called socket.close()
    hpc |-> "unconnected",      \* position of the /ws/:callId handler
    created |-> FALSE,          \* new VoiceSession(...) ran
    handlers |-> FALSE,         \* setupSocketHandlers ran
    state |-> "idle",
    startTime |-> 0,
    isEnded |-> FALSE,
    sessionPromise |-> "none",  \* none | pending | resolved (onSessionEnd)
    audioBuffer |-> 0,          \* number of frames buffered
    silenceStart |-> 0,
    isSpeaking |-> FALSE,
    currentSynthesisId |-> 0,
    userAudioChunks |-> 0,
    assistantAudioChunks |-> 0,
    messages |-> <<>>,          \* roles of the history
    epc |-> "none",             \* position of the end() that passed the guard
    ecaller |-> "none",         \* who awaits it
    ereason |-> "none",
    eduration |-> 0,
    eendedAt |-> 0,             \* `endedAt: new Date()` of end()'s update
    hstartedAt |-> 0,           \* `startedAt: new Date()` of the handler's update
    turns |-> [t \in Turns |-> NewTurn],
    startSid |-> 0,             \* synthesisId of start()'s first-message synthesis
    timers |-> {},              \* synthesis ids of the pending playback timers
    frames |-> 0,               \* audio frames received so far
    \* ---- observation of the run (history, read by no handler)
    endInvocations |-> 0,
    nCallStarted |-> 0,
    nCallEnded |-> 0,
    nFinalised |-> 0,
    nFlush |-> 0,
    out |-> <<>>,               \* events emitted by the handler run in progress
    evFirst |-> "none",         \* the first event sent on the open socket
    evAfterEnded |-> FALSE,     \* an event was sent after call.ended was
    endedDelivered |-> FALSE,
    attempts |-> <<>>,          \* synthesis ids in the order they were issued
    transmitted |-> {},         \* ids whose audio was sent on the socket
    staleReturn |-> {},         \* ids that were not current when TTS returned
    sentStale |-> FALSE,        \* an audio frame of a non-current id was sent
    interrupted |-> {},         \* ids current when assistant.interrupted was emitted
    sentAfterInt |-> {},        \* ids transmitted when `interrupted` was non-empty
    sentNotNewer |-> FALSE,     \* ... one of them with an id <= an interrupted id
    intFrom |-> {},             \* states held just before assistant.interrupted
    intTo |-> {},               \* states held just after it
    doneFor |-> {},             \* ids whose timer or TTS catch emitted assistant.audio.done
    afterEnd |-> {},            \* what socket input changed after end() was invoked
    afterEndCall |-> {},        \* what a turn did after its endCall tool call
    afterTransfer |-> {},       \* what a turn did after its transferCall tool call
    xferSent |-> <<>>,          \* <<arguments, data>> of the last transfer.started
    failState |-> {},           \* <<stage, state>>: the state a provider failure left
    failBad |-> FALSE,          \* a provider failure ended the session or emitted
                                \* assistant.message
    failSilent |-> {},          \* stages whose failure emitted no assistant.audio.done
    blankBad |-> FALSE,         \* a blank transcript changed the history, emitted
                                \* transcript.final or left a state other than listening
    endpointBad |-> FALSE,      \* a silent frame ended the utterance too early or
                                \* too late, or did not record the silence onset
    fnExecuted |-> 0,           \* toolExecutor.execute calls that have returned
    toolOnlyBad |-> FALSE,      \* a response with tool calls emitted assistant.message
                                \* or appended an assistant message
    reinvokeBad |-> FALSE,      \* generation was re-invoked on a history without
                                \* the result of an executed tool call
    startSpoke |-> FALSE,       \* start() appended an assistant message or emitted
                                \* assistant.message
    messageSent |-> FALSE,      \* an assistant.message went out on the socket
    finalSince |-> FALSE,       \* ... and a transcript.final after the last one
    messageBad |-> FALSE,       \* two assistant.message went out without a
                                \* transcript.final between them
    ctlIn |-> {},               \* states in which an 'interrupt' message arrived
    ctlBad |-> FALSE,           \* ... outside speaking, and it changed the turn
                                \* state or emitted an event
    toolErrSeen |-> {},         \* why executions of a function tool failed
    toolErrBad |-> FALSE,       \* ... and execute threw or returned no error
                                \* object, or the session did not go on
    speechOpen |-> FALSE,       \* the last speech event emitted is speech.started
    speechBad |-> FALSE ]       \* speech.started was emitted after speech.started,
                                \* or speech.ended without one

\* ws: send() on a socket that is not OPEN transmits nothing (and, past
\* CONNECTING, does not throw).  `out` and the counters record what was
\* emitted, evFirst and evAfterEnded what went out on the open socket.
SocketSend(s, type) ==
  [s EXCEPT !.out = Append(@, type),
            !.evFirst = IF @ = "none" /\ s.socket = "open" THEN type ELSE @,
            !.evAfterEnded = @ \/ (s.endedDelivered /\ s.socket = "open"),
            !.nCallStarted = IF type = "call.started" THEN @ + 1 ELSE @,
            !.nCallEnded = IF type = "call.ended" THEN @ + 1 ELSE @,
            !.endedDelivered = @ \/ (type = "call.ended" /\ s.socket = "open"),
            !.messageSent = @ \/ (type = "assistant.message" /\ s.socket = "open"),
            !.finalSince = IF s.socket # "open" THEN @
                           ELSE IF type = "transcript.final" THEN s.messageSent
                           ELSE IF type = "assistant.message" THEN FALSE ELSE @,
            !.messageBad = @ \/ (type = "assistant.message" /\ s.socket = "open"
                                  /\ s.messageSent /\ ~s.finalSince),
            !.speechOpen = IF type = "speech.started" THEN TRUE
                           ELSE IF type = "speech.ended" THEN FALSE ELSE @,
            !.speechBad = @ \/ (type = "speech.started" /\ s.speechOpen)
                            \/ (type = "speech.ended" /\ ~s.speechOpen)]

sendEvent(s, type) == SocketSend(s, type)

\* JSON.stringify of { destination: v }: a key whose value is undefined is
\* left out.  The object as the set of its <<key, value>> pairs.
JsonDestination(v) == IF v = Undefined THEN {} ELSE {<<"destination", v>>}

\* the data of transfer.started: { destination: toolCall.arguments.number }
TransferData(args) == JsonDestination(args.number)

\* this.sendEvent('transfer.started', { destination: ... })
transferStarted(s, args) ==
  [sendEvent(s, "transfer.started") EXCEPT !.xferSent = <<args, TransferData(args)>>]

\* `timestampMs: Date.now() - this.startTime` of the message turn t goes on to save
Stamp(s, t) == [s EXCEPT !.turns[t].timestampMs = now - s.startTime]

\* socket.close(): OPEN becomes CLOSING; the 'close' event follows later.
SocketClose(s) ==
  [s EXCEPT !.socket = IF @ = "open" THEN "closing" ELSE @,
            !.serverClosed = TRUE]

\* ------------------------------------------------- VoiceSession, pure parts
\* Each operator takes the session record and yields it as the code leaves it
\* at its next await (or at its return).

RECURSIVE SumAbs(_)
SumAbs(audio) ==
  IF audio = <<>> THEN 0
  ELSE (IF Head(audio) < 0 THEN -Head(audio) ELSE Head(audio)) + SumAbs(Tail(audio))

\* avgEnergy = sum / (audio.length / 2) > 200, on integers: sum > 200 * samples
detectVoiceActivity(audio) == SumAbs(audio) > VadThreshold * Len(audio)

audioDone(s, sid) ==
  sendEvent([s EXCEPT !.doneFor = @ \cup {sid}], "assistant.audio.done")

\* a handleInterrupt without the guard
InterruptApplies_Always(s) == TRUE

\* if (this.state !== 'speaking') return;
InterruptApplies(s) == s.state = "speaking"

\* this.currentSynthesisId++
InterruptBump(s) == s.currentSynthesisId + 1

handleInterrupt(s) ==
  IF ~InterruptApplies(s) THEN s
  ELSE LET s1 == [s EXCEPT !.currentSynthesisId = InterruptBump(s),
                           !.state = "listening",
                           !.interrupted = @ \cup {s.currentSynthesisId},
                           !.intFrom = @ \cup {s.state}]
           s2 == sendEvent(s1, "assistant.interrupted")
       IN [s2 EXCEPT !.audioBuffer = 0, !.intTo = @ \cup {s2.state}]

\* if (this.isEnded) return;
EndGuard(s) == s.isEnded

\* end(reason) up to its first await (prisma.call.update); `caller` is who
\* awaits the returned promise.
end(s, reason, caller) ==
  IF EndGuard(s) THEN [s EXCEPT !.endInvocations = Sat(@)]
  ELSE [s EXCEPT !.endInvocations = Sat(@),
                 !.isEnded = TRUE,
                 !.epc = "update",
                 !.ereason = reason,
                 !.ecaller = caller,
                 !.eduration = Floor1000(now - s.startTime),
                 !.eendedAt = now]

\* the counter read without the increment
NextSynthesisId_Same(s) == s.currentSynthesisId

\* const synthesisId = ++this.currentSynthesisId;
NextSynthesisId(s) == s.currentSynthesisId + 1

\* synthesizeAndPlay up to `await this.tts.synthesize(text)`; the caller keeps
\* the new currentSynthesisId as its synthesisId.
synthesizeAndPlay(s) ==
  [s EXCEPT !.state = "speaking",
            !.currentSynthesisId = NextSynthesisId(s),
            !.attempts = Append(@, NextSynthesisId(s))]

\* the check without the generation counter
TtsStillCurrent_StateOnly(s, sid) == s.state = "speaking"

\* if (this.state !== 'speaking' || this.currentSynthesisId !== synthesisId) return;
TtsStillCurrent(s, sid) == s.state = "speaking" /\ s.currentSynthesisId = sid

\* the check without the generation counter
TimerStillCurrent_StateOnly(s, sid) == s.state = "speaking"

\* the playback timer's check
TimerStillCurrent(s, sid) == s.state = "speaking" /\ s.currentSynthesisId = sid

\* a catch that leaves the state alone
CatchStillCurrent_Never(s, sid) == FALSE

\* the TTS catch's check
CatchStillCurrent(s, sid) == s.state = "speaking" /\ s.currentSynthesisId = sid

sendAudio(s, sid) ==
  IF s.socket # "open" THEN s
  ELSE [s EXCEPT !.assistantAudioChunks = @ + 1,
                 !.transmitted = @ \cup {sid},
                 !.sentStale = @ \/ (sid # s.currentSynthesisId),
                 !.sentAfterInt = IF s.interrupted # {} THEN @ \cup {sid} ELSE @,
                 !.sentNotNewer = @ \/ (\E i \in s.interrupted : sid <= i)]

\* synthesizeAndPlay from the return of tts.synthesize to its end
ttsReturned(s, sid) ==
  LET s0 == [s EXCEPT !.staleReturn =
                         IF s.currentSynthesisId # sid THEN @ \cup {sid} ELSE @]
  IN IF ~TtsStillCurrent(s0, sid) THEN s0
     ELSE LET s1 == sendEvent(s0, "assistant.speaking")
              s2 == sendAudio(s1, sid)
          IN [s2 EXCEPT !.assistantAudioChunks = @ + 1,
                        !.timers = @ \cup {sid}]

\* synthesizeAndPlay's catch
ttsFailed(s, sid) ==
  IF CatchStillCurrent(s, sid)
  THEN audioDone([s EXCEPT !.state = "listening"], sid)
  ELSE s

\* the setTimeout callback of synthesis `sid`
timerFired(s, sid) ==
  LET s0 == [s EXCEPT !.timers = @ \ {sid}]
  IN IF TimerStillCurrent(s0, sid)
     THEN audioDone([s0 EXCEPT !.state = "listening",
                               !.isSpeaking = FALSE,
                               !.audioBuffer = 0], sid)
     ELSE s0

SavePcs == {"saveUser", "saveTool", "saveAsst"}

\* the timestampMs of a message lives as long as its saveMessage call
SetTurn(s, t, pc, calls) ==
  [s EXCEPT !.turns[t].pc = pc, !.turns[t].calls = calls,
            !.turns[t].timestampMs = IF pc \in SavePcs THEN @ ELSE 0]

\* turn t does `what` (tool: handles a tool call, llm: invokes the LLM,
\* message: emits assistant.message, tts: starts a synthesis, audio: sends audio)
NoteAfter(s, t, what) ==
  [s EXCEPT !.afterEndCall = IF s.turns[t].endCalled THEN @ \cup {what} ELSE @,
            !.afterTransfer = IF s.turns[t].transferred THEN @ \cup {what} ELSE @]

\* generateResponse up to `await this.llm.generate(...)`
generateResponse(s, t) ==
  SetTurn([NoteAfter(s, t, "llm") EXCEPT !.turns[t].invoked = @ + 1], t, "llm", <<>>)

RECURSIVE CountRole(_, _)
CountRole(messages, role) ==
  IF messages = <<>> THEN 0
  ELSE (IF Head(messages) = role THEN 1 ELSE 0) + CountRole(Tail(messages), role)

\* the tool call loop of turn t has run to its end
NoteLoopEnd(s, t) ==
  [s EXCEPT !.turns[t].loops = @ + 1,
            !.reinvokeBad = @ \/ CountRole(s.messages, "tool") # s.fnExecuted]

\* handleToolCall without the push
toolResult_NoPush(s) == sendEvent(s, "tool.result")

\* handleToolCall from the return of toolExecutor.execute to `await
\* this.saveMessage`: tool.result, the tool message
toolResult(s) ==
  [sendEvent(s, "tool.result") EXCEPT !.messages = Append(@, "tool")]

\* what the run that received a response with tool calls did
NoteToolOnly(before, after) ==
  [after EXCEPT
     !.toolOnlyBad = @ \/ CountRole(after.messages, "assistant")
                            # CountRole(before.messages, "assistant")
                       \/ \E i \in DOMAIN after.out : after.out[i] = "assistant.message"]

\* generateResponse's catch
llmCatch(s, t) ==
  SetTurn(sendEvent([s EXCEPT !.state = "listening"], "assistant.audio.done"),
          t, "done", <<>>)

\* The `for (const toolCall of response.toolCalls)` loop of generateResponse
\* with handleToolCall inlined, from tool call Head(calls) to the next await;
\* after the last tool call generateResponse calls itself.
RECURSIVE runToolCalls(_, _, _)
runToolCalls(s, t, calls) ==
  IF calls = <<>> THEN generateResponse(NoteLoopEnd(s, t), t)
  ELSE LET s1 == sendEvent(NoteAfter(s, t, "tool"), "tool.called")
           name == Head(calls)
           s2 == [s1 EXCEPT !.turns[t].endCalled = TRUE]
           s3 == [s1 EXCEPT !.turns[t].transferred = TRUE]
       IN CASE name = "endCall" ->
                 IF EndGuard(s2)
                 THEN runToolCalls(end(s2, "assistant-ended", "tool"), t, Tail(calls))
                 ELSE SetTurn(end(s2, "assistant-ended", "tool"), t, "awaitEnd", Tail(calls))
            [] name = "transferCall" ->
                 runToolCalls(transferStarted(s3, s.turns[t].xargs), t, Tail(calls))
            [] OTHER -> SetTurn(s1, t, "tool", Tail(calls))

\* ---------------------------------------------------------- ToolExecutor
\* What the executor holds for the name of a tool call that is not built in:
\* no tool of that function name, or a tool with or without serverUrl
FunctionTools == [known : BOOLEAN, serverUrl : BOOLEAN]

\* What the POST to tool.serverUrl does: a 2xx response with a JSON body or
\* with another body, a response with another status, a rejected fetch, the
\* AbortSignal.timeout(10000)
FetchOutcomes == {"ok", "bad-json", "non-2xx", "network-error", "timeout"}

\* a call that returns `value`
Returned(value) == [threw |-> FALSE, value |-> value]

\* the body of execute's try: fetch, `if (!response.ok) throw`, response.json();
\* Thrown(message): it throws an Error with that message
fetchTool(outcome) ==
  LET Thrown(message) == [threw |-> TRUE, value |-> [error |-> message]]
  IN CASE outcome = "ok" -> Returned([data |-> "json"])
       [] outcome = "bad-json" -> Thrown("Unexpected token")
       [] outcome = "non-2xx" -> Thrown("Tool server error")
       [] outcome = "network-error" -> Thrown("fetch failed")
       [] outcome = "timeout" -> Thrown("The operation was aborted due to timeout")

\* an execute whose fetch is not in a try
execute_NoCatch(tool, outcome) ==
  IF ~tool.known \/ ~tool.serverUrl THEN Returned([error |-> "Unknown tool"])
  ELSE fetchTool(outcome)

\* toolExecutor.execute(name, args) for a name that is not built in
execute(tool, outcome) ==
  IF ~tool.known \/ ~tool.serverUrl THEN Returned([error |-> "Unknown tool"])
  ELSE LET r == fetchTool(outcome)
       IN IF r.threw THEN Returned([error |-> r.value.error]) ELSE r

\* what a failing execution with outcome r did to the session
NoteToolError(before, after, t, failure, r) ==
  IF failure = "ok" THEN after
  ELSE [after EXCEPT
          !.toolErrSeen = @ \cup {failure},
          !.toolErrBad =
             @ \/ r.threw
               \/ DOMAIN r.value # {"error"}
               \/ ~\E i \in DOMAIN after.out : after.out[i] = "tool.result"
               \/ after.messages # Append(before.messages, "tool")
               \/ after.isEnded # before.isEnded
               \/ after.turns[t].pc # "saveTool"]

\* String.prototype.trim, on the blank character
RECURSIVE TrimStart(_)
TrimStart(str) ==
  IF str # <<>> /\ Head(str) = " " THEN TrimStart(Tail(str)) ELSE str

RECURSIVE TrimEnd(_)
TrimEnd(str) ==
  IF str # <<>> /\ str[Len(str)] = " " THEN TrimEnd(SubSeq(str, 1, Len(str) - 1)) ELSE str

Trim(str) == TrimEnd(TrimStart(str))

\* the test without trim()
NoTranscript_EmptyOnly(transcript) == transcript = <<>>

\* if (!transcript || transcript.trim().length === 0)
NoTranscript(transcript) == transcript = <<>> \/ Len(Trim(transcript)) = 0

\* processUserSpeech from the return of stt.transcribe to its next await
sttReturned(s, t, transcript) ==
  IF NoTranscript(transcript)
  THEN SetTurn([s EXCEPT !.state = "listening"], t, "done", <<>>)
  ELSE SetTurn(Stamp([sendEvent(s, "transcript.final")
                        EXCEPT !.messages = Append(@, "user")], t),
               t, "saveUser", <<>>)

\* what a transcript without a character other than a blank did to the session
NoteBlank(before, after, t, transcript) ==
  IF \E i \in DOMAIN transcript : transcript[i] # " " THEN after
  ELSE [after EXCEPT
          !.turns[t].blank = TRUE,
          !.blankBad = @ \/ after.messages # before.messages
                         \/ after.state # "listening"
                         \/ after.turns[t].pc # "done"
                         \/ \E i \in DOMAIN after.out : after.out[i] = "transcript.final"]

UsedTurns(s) == {t \in Turns : s.turns[t].pc # "unused"}

\* processUserSpeech up to `await this.stt.transcribe(audioData)`; the pipeline
\* it starts is turn number Cardinality(UsedTurns(s)) + 1
processUserSpeech(s) ==
  IF s.audioBuffer = 0 THEN s
  ELSE LET s1 == sendEvent([s EXCEPT !.audioBuffer = 0], "assistant.thinking")
       IN SetTurn([s1 EXCEPT !.state = "thinking"],
                  Cardinality(UsedTurns(s)) + 1, "stt", <<>>)

handleAudioData(s, data) ==
  IF s.isEnded THEN s
  ELSE
    LET s1 == [s EXCEPT !.userAudioChunks = @ + 1]
        hasVoice == detectVoiceActivity(data)
    IN IF s1.state = "speaking" /\ assistant.interruptionEnabled
       THEN IF hasVoice
            THEN sendEvent([handleInterrupt(s1) EXCEPT !.audioBuffer = @ + 1,
                                                       !.isSpeaking = TRUE,
                                                       !.silenceStart = 0],
                           "speech.started")
            ELSE s1
       ELSE
         LET s2 == [s1 EXCEPT !.audioBuffer = @ + 1]
         IN IF hasVoice
            THEN [(IF ~s2.isSpeaking THEN sendEvent(s2, "speech.started") ELSE s2)
                    EXCEPT !.isSpeaking = TRUE,
                           !.silenceStart = 0,
                           !.state = "listening"]
            ELSE IF s2.isSpeaking
            THEN LET s3 == [s2 EXCEPT !.silenceStart = IF @ = 0 THEN now ELSE @]
                     silenceTimeout == Min(assistant.silenceTimeoutMs, SilenceCapMs)
                 IN IF now - s3.silenceStart > silenceTimeout
                    THEN processUserSpeech(
                           sendEvent([s3 EXCEPT !.isSpeaking = FALSE], "speech.ended"))
                    ELSE s3
            ELSE s2

\* handleControlMessage up to its first suspended await; `end` is awaited by
\* the socket's message handler, whose catch only logs.
handleControlMessage(s, type) ==
  CASE type = "end" -> end(s, "client-request", "control")
    [] type = "interrupt" -> handleInterrupt(s)
    [] OTHER -> s

\* the socket's 'close' handler (the promise of end is not awaited)
onSocketClose(s) ==
  IF s.handlers /\ ~s.isEnded THEN end(s, "client-disconnect", "close") ELSE s

\* A provider call of `stage` threw: `before` and `after` are the session
\* around the run of the catch.
NoteFail(before, after, stage) ==
  [after EXCEPT
     !.failState = @ \cup {<<stage, after.state>>},
     !.failBad = @ \/ after.isEnded # before.isEnded
                   \/ \E i \in DOMAIN after.out :
                        after.out[i] \in {"assistant.message", "call.ended"},
     !.failSilent = IF \E i \in DOMAIN after.out : after.out[i] = "assistant.audio.done"
                    THEN @ ELSE @ \cup {stage}]

\* the stage of a throwing tts.synthesize: of the synthesis still playing the
\* state, or of one that an interruption or a newer turn has overtaken
TtsStage(s, sid) ==
  IF s.state = "speaking" /\ s.currentSynthesisId = sid THEN "tts" ELSE "tts.stale"

\* ------------------------------------------------------------------ state
NewCall ==
  [ status |-> "queued", startedAt |-> 0, endedAt |-> 0, endedReason |-> "none",
    durationSeconds |-> 0, recording |-> FALSE,
    messages |-> <<>> ]             \* the CallMessage rows of the call, in the
                                    \* order they were created

\* The telephony routes of the API server: the webhook being handled (pc, body,
\* the update it has issued), the reply it sent, and the Call rows and carrier
\* commands the inbound routes have produced.
NewCarrier ==
  [ pc |-> "idle", body |-> <<>>, data |-> <<>>,
    reply |-> [kind |-> "none", callId |-> 0],
    rows |-> <<>>,                  \* Call rows created by the inbound routes
    created |-> FALSE,              \* the webhook being handled created a row
    commands |-> <<>>,              \* call-control commands Telnyx received
    handled |-> 0,
    statusWritten |-> FALSE,        \* a status callback has updated the row
    unknownWrote |-> FALSE ]        \* a callback with an unknown sid wrote a row

\* The Call row of the call id exists with an assistant (the row the API's
\* call creation route inserts, status queued), so the handler's two
\* "not found" exits are not taken.
Init ==
  /\ now = T0
  /\ procUp = TRUE
  /\ assistant \in Assistants
  /\ call = NewCall
  /\ sessions = NoSession
  /\ shutdown = "idle"
  /\ sess = [c \in Conns |-> NewConn]
  /\ carrier = NewCarrier

\* A CallMessage row: its role, its content (the assistant's firstMessage, a
\* transcript, an LLM text, a tool result) and its timestampMs
CallMessage(role, content, timestampMs) ==
  [role |-> role, content |-> content, timestampMs |-> timestampMs]

\* prisma.callMessage.create of saveMessage has created the row
saveMessage(message) == call' = [call EXCEPT !.messages = Append(@, message)]

\* the session as a handler run leaves it
Put(c, s) == sess' = [sess EXCEPT ![c] = [s EXCEPT !.out = <<>>]]

\* What a socket input changed in a session on which end() had been invoked:
\* `before` and `after` are the session around the handler run.
ObserveAfterEnd(before, after) ==
  IF ~before.isEnded THEN after
  ELSE [after EXCEPT !.afterEnd =
          @ \cup (IF after.state # before.state THEN {"state"} ELSE {})
            \cup (IF after.currentSynthesisId # before.currentSynthesisId
                  THEN {"synthesisId"} ELSE {})
            \cup (IF after.audioBuffer # before.audioBuffer
                     \/ after.userAudioChunks # before.userAudioChunks
                  THEN {"buffer"} ELSE {})
            \cup (IF after.out # <<>> THEN {"event"} ELSE {})]

\* a frame handled by the normal listening mode of handleAudioData
Endpointing(s) ==
  ~s.isEnded /\ ~(s.state = "speaking" /\ assistant.interruptionEnabled)

\* What a silent frame did to a session whose user was speaking, against the
\* rule: the utterance ends when the silence has lasted longer than the
\* configured timeout, a timeout above the cap counting as the cap.
NoteEndpoint(before, after, data) ==
  IF ~(Endpointing(before) /\ before.isSpeaking /\ \A i \in DOMAIN data : data[i] = 0)
  THEN after
  ELSE LET timeout == IF assistant.silenceTimeoutMs > SilenceCapMs
                      THEN SilenceCapMs ELSE assistant.silenceTimeoutMs
           due == before.silenceStart # 0 /\ now - before.silenceStart > timeout
           ended == \E i \in DOMAIN after.out : after.out[i] = "speech.ended"
           thinking == \E i \in DOMAIN after.out : after.out[i] = "assistant.thinking"
       IN [after EXCEPT
             !.endpointBad = @ \/ ended # due \/ thinking # due
                               \/ after.isSpeaking = due
                               \/ (before.silenceStart = 0 /\ after.silenceStart # now)]

\* ------------------------------------------------------------ environment
\* the clock in fine steps
Elapse ==
  /\ procUp
  /\ now < T0 + MaxSteps * StepMs
  /\ now' = now + StepMs
  /\ UNCHANGED <<procUp, assistant, call, sessions, shutdown, sess, carrier>>

Tick ==
  /\ procUp
  /\ now < T0 + MaxTicks * TickMs
  /\ now' = now + TickMs
  /\ UNCHANGED <<procUp, assistant, call, sessions, shutdown, sess, carrier>>

\* ------------------------------------------- /ws/:callId handler and start()
\* the handler's catch: send an error event, close the socket
HandlerCatch(s) == [SocketClose(SocketSend(s, "error")) EXCEPT !.hpc = "caught"]

\* what start() did between its prisma.call.update and its next await
NoteStart(before, after) ==
  [after EXCEPT
     !.startSpoke = \/ CountRole(after.messages, "assistant")
                          # CountRole(before.messages, "assistant")
                    \/ \E i \in DOMAIN after.out : after.out[i] = "assistant.message"]

\* `await sessionPromise` at the end of start()
AwaitSession(s) ==
  [s EXCEPT !.hpc = IF s.sessionPromise = "resolved" THEN "returned" ELSE "start.wait"]

\* A client opens /ws/{callId}: the handler sends its test message and awaits
\* prisma.call.findFirst.  Connections are numbered in the order they open.
Connect(c) ==
  /\ procUp
  /\ sess[c].hpc = "unconnected"
  /\ \A d \in Conns : d < c => sess[d].hpc # "unconnected"
  /\ Put(c, SocketSend([sess[c] EXCEPT !.socket = "open", !.hpc = "find"], "test"))
  /\ UNCHANGED <<now, procUp, assistant, call, sessions, shutdown, carrier>>

\* findFirst returns: new VoiceSession, sessions.set(callId, session), then
\* await prisma.call.update (status in-progress)
FindReturn(c) ==
  /\ procUp
  /\ sess[c].hpc = "find"
  /\ \E ok \in BOOLEAN :
       IF ok
       THEN /\ Put(c, [sess[c] EXCEPT !.created = TRUE,
                                      !.messages = <<"system">>,
                                      !.hstartedAt = now,
                                      !.hpc = "update"])
            /\ sessions' = c
       ELSE /\ Put(c, HandlerCatch(sess[c]))
            /\ UNCHANGED sessions
  /\ UNCHANGED <<now, procUp, assistant, call, shutdown, carrier>>

\* the handler's update returns: session.start() up to its prisma.call.update
UpdateReturn(c) ==
  /\ procUp
  /\ sess[c].hpc = "update"
  /\ \E ok \in BOOLEAN :
       IF ok
       THEN /\ call' = [call EXCEPT !.status = "in-progress",
                                    !.startedAt = sess[c].hstartedAt]
            /\ Put(c, [sendEvent([sess[c] EXCEPT !.startTime = now,
                                                 !.sessionPromise = "pending"],
                                 "call.started")
                         EXCEPT !.hpc = "start.update"])
       ELSE /\ Put(c, HandlerCatch(sess[c]))
            /\ UNCHANGED call
  /\ UNCHANGED <<now, procUp, assistant, sessions, shutdown, carrier>>

\* start()'s update returns: setupSocketHandlers, state listening, and with a
\* firstMessage the assistant message up to `await this.saveMessage`
StartUpdateReturn(c) ==
  /\ procUp
  /\ sess[c].hpc = "start.update"
  /\ \E ok \in BOOLEAN :
       IF ok
       THEN /\ call' = [call EXCEPT !.status = "active",
                                    !.startedAt = sess[c].startTime]
            /\ LET s1 == [sess[c] EXCEPT !.handlers = TRUE, !.state = "listening"]
               IN IF assistant.firstMessage
                  THEN Put(c, NoteStart(sess[c],
                                [sendEvent([s1 EXCEPT !.messages = Append(@, "assistant")],
                                           "assistant.message")
                                   EXCEPT !.hpc = "start.save"]))
                  ELSE Put(c, NoteStart(sess[c], AwaitSession(s1)))
       ELSE /\ Put(c, HandlerCatch(sess[c]))
            /\ UNCHANGED call
  /\ UNCHANGED <<now, procUp, assistant, sessions, shutdown, carrier>>

\* saveMessage of the first message returns: synthesizeAndPlay up to its await
StartSaveReturn(c) ==
  /\ procUp
  /\ sess[c].hpc = "start.save"
  /\ \E ok \in BOOLEAN :
       IF ok
       THEN /\ saveMessage(CallMessage("assistant", "firstMessage", 0))
            /\ Put(c, [synthesizeAndPlay(sess[c])
                         EXCEPT !.startSid = NextSynthesisId(sess[c]),
                                !.hpc = "start.tts"])
       ELSE /\ Put(c, HandlerCatch(sess[c]))
            /\ UNCHANGED call
  /\ UNCHANGED <<now, procUp, assistant, sessions, shutdown, carrier>>

\* the first message's tts.synthesize returns or throws; start() then awaits
\* the session-end signal
StartTtsReturn(c) ==
  /\ procUp
  /\ sess[c].hpc = "start.tts"
  /\ \E ok \in BOOLEAN :
       Put(c, AwaitSession(IF ok THEN ttsReturned(sess[c], sess[c].startSid)
                                 ELSE NoteFail(sess[c],
                                               ttsFailed(sess[c], sess[c].startSid),
                                               TtsStage(sess[c], sess[c].startSid))))
  /\ UNCHANGED <<now, procUp, assistant, call, sessions, shutdown, carrier>>

\* --------------------------------------------------------------- end(reason)
AwaitingEnd(s) == {t \in Turns : s.turns[t].pc = "awaitEnd"}

\* the rejection of end() reaches the turn that awaits it, in generateResponse's
\* catch
EndRejected(s) ==
  IF s.ecaller = "tool" /\ AwaitingEnd(s) # {}
  THEN llmCatch(s, CHOOSE t \in AwaitingEnd(s) : TRUE)
  ELSE s

\* end() returns to the turn that awaits it: handleToolCall returns and the
\* loop over the tool calls goes on
EndResumed(s) ==
  IF s.ecaller = "tool" /\ AwaitingEnd(s) # {}
  THEN LET t == CHOOSE u \in AwaitingEnd(s) : TRUE
       IN runToolCalls(s, t, s.turns[t].calls)
  ELSE s

\* A rejected promise nobody handles ends a Node 20 process: the 'close'
\* handler does not await end(), the SIGINT handler has no catch.
Unhandled(caller) == caller \in {"close", "shutdown"}

\* end()'s prisma.call.update returns: call.ended is emitted and saveRecording
\* starts; or it throws and end() is left with isEnded set.
EndUpdateReturn(c) ==
  /\ procUp
  /\ sess[c].epc = "update"
  /\ \E ok \in BOOLEAN :
       IF ok
       THEN /\ call' = [call EXCEPT !.status = "completed",
                                    !.endedReason = sess[c].ereason,
                                    !.endedAt = sess[c].eendedAt,
                                    !.durationSeconds = sess[c].eduration]
            /\ Put(c, [sendEvent([sess[c] EXCEPT !.nFinalised = @ + 1], "call.ended")
                         EXCEPT !.epc = "saveRec", !.nFlush = @ + 1])
            /\ UNCHANGED <<procUp, shutdown>>
       ELSE /\ Put(c, EndRejected([sess[c] EXCEPT !.epc = "failed"]))
            /\ procUp' = ~Unhandled(sess[c].ecaller)
            /\ shutdown' = IF sess[c].ecaller = "shutdown" THEN "crashed" ELSE shutdown
            /\ UNCHANGED call
  /\ UNCHANGED <<now, assistant, sessions, carrier>>

\* saveRecording returns (it catches its own errors): socket.close(),
\* onEnd() deletes the call id from the registry, onSessionEnd resolves the
\* promise start() awaits, and the awaiting caller goes on.
EndSaveReturn(c) ==
  /\ procUp
  /\ sess[c].epc = "saveRec"
  /\ \E ok \in BOOLEAN : call' = [call EXCEPT !.recording = @ \/ ok]
  /\ sessions' = NoSession
  /\ LET s1 == SocketClose(sess[c])
         s2 == [s1 EXCEPT !.epc = "done",
                          !.sessionPromise = IF @ = "pending" THEN "resolved" ELSE @,
                          !.hpc = IF @ = "start.wait" THEN "returned" ELSE @]
     IN Put(c, EndResumed(s2))
  /\ IF sess[c].ecaller = "shutdown"
     THEN procUp' = FALSE /\ shutdown' = "exited"
     ELSE UNCHANGED <<procUp, shutdown>>
  /\ UNCHANGED <<now, assistant, carrier>>

\* ------------------------------------------------------------ the user turn
\* stt.transcribe returns text, returns nothing, or throws
SttReturn(c, t) ==
  /\ procUp
  /\ sess[c].turns[t].pc = "stt"
  /\ \/ \E transcript \in Transcripts :
            Put(c, NoteBlank(sess[c], sttReturned(sess[c], t, transcript), t, transcript))
     \/ Put(c, NoteFail(sess[c],
                        SetTurn([sess[c] EXCEPT !.state = "listening"], t, "done", <<>>),
                        "stt"))
  /\ UNCHANGED <<now, procUp, assistant, call, sessions, shutdown, carrier>>

\* saveMessage of the user message returns (generateResponse starts) or throws
\* (processUserSpeech's catch)
SaveUserReturn(c, t) ==
  /\ procUp
  /\ sess[c].turns[t].pc = "saveUser"
  /\ \E ok \in BOOLEAN :
       IF ok
       THEN /\ saveMessage(CallMessage("user", "transcript", sess[c].turns[t].timestampMs))
            /\ Put(c, generateResponse(sess[c], t))
       ELSE /\ Put(c, SetTurn([sess[c] EXCEPT !.state = "listening"], t, "done", <<>>))
            /\ UNCHANGED call
  /\ UNCHANGED <<now, procUp, assistant, sessions, shutdown, carrier>>

\* generateResponse from the return of llm.generate with response r to its
\* next await
llmReturned(s, t, r) ==
  IF r.toolCalls # <<>>
  THEN NoteToolOnly(s, runToolCalls(s, t, r.toolCalls))
  ELSE IF r.content
  THEN SetTurn(Stamp(sendEvent([NoteAfter(s, t, "message")
                                  EXCEPT !.messages = Append(@, "assistant")],
                               "assistant.message"), t),
               t, "saveAsst", <<>>)
  ELSE SetTurn(s, t, "done", <<>>)

\* llm.generate returns a response or throws.  The LLM answers with tool calls
\* fewer than MaxLlmRounds times in a row.
LlmReturn(c, t) ==
  /\ procUp
  /\ sess[c].turns[t].pc = "llm"
  /\ LET s == [sess[c] EXCEPT !.turns[t].rounds = @ + 1]
     IN \/ Put(c, NoteFail(s, llmCatch(s, t), "llm"))
        \/ \E r \in LlmResponses :
             /\ r.toolCalls # <<>> => s.turns[t].rounds < MaxLlmRounds
             /\ Put(c, llmReturned(s, t, r))
  /\ UNCHANGED <<now, procUp, assistant, call, sessions, shutdown, carrier>>

\* toolExecutor.execute returns (it never throws): tool.result, the tool
\* message, then `await this.saveMessage`
ToolReturn(c, t) ==
  /\ procUp
  /\ sess[c].turns[t].pc = "tool"
  /\ Put(c, SetTurn([Stamp(toolResult(sess[c]), t)
                       EXCEPT !.fnExecuted = @ + 1,
                              !.turns[t].appended =
                                 IF sess[c].turns[t].calls = <<>> THEN @ + 1 ELSE @],
                    t, "saveTool", sess[c].turns[t].calls))
  /\ UNCHANGED <<now, procUp, assistant, call, sessions, shutdown, carrier>>

\* toolExecutor.execute returns for a function tool, or throws into
\* generateResponse's catch
FunctionToolReturn(c, t) ==
  /\ procUp
  /\ sess[c].turns[t].pc = "tool"
  /\ \E tool \in FunctionTools, outcome \in FetchOutcomes :
       LET r == execute(tool, outcome)
           \* why the execution fails ("ok": it does not)
           failure == IF ~tool.known THEN "unknown-tool"
                      ELSE IF ~tool.serverUrl THEN "no-serverUrl"
                      ELSE outcome
           after ==
             IF r.threw THEN llmCatch(sess[c], t)
             ELSE SetTurn([Stamp(toolResult(sess[c]), t)
                             EXCEPT !.fnExecuted = @ + 1,
                                    !.turns[t].appended =
                                       IF sess[c].turns[t].calls = <<>> THEN @ + 1 ELSE @],
                          t, "saveTool", sess[c].turns[t].calls)
       IN Put(c, NoteToolError(sess[c], after, t, failure, r))
  /\ UNCHANGED <<now, procUp, assistant, call, sessions, shutdown, carrier>>

SaveToolReturn(c, t) ==
  /\ procUp
  /\ sess[c].turns[t].pc = "saveTool"
  /\ \E ok \in BOOLEAN :
       IF ok
       THEN /\ saveMessage(CallMessage("tool", "result", sess[c].turns[t].timestampMs))
            /\ Put(c, runToolCalls(sess[c], t, sess[c].turns[t].calls))
       ELSE /\ Put(c, llmCatch(sess[c], t))
            /\ UNCHANGED call
  /\ UNCHANGED <<now, procUp, assistant, sessions, shutdown, carrier>>

\* saveMessage of the assistant message returns: synthesizeAndPlay up to its await
SaveAsstReturn(c, t) ==
  /\ procUp
  /\ sess[c].turns[t].pc = "saveAsst"
  /\ \E ok \in BOOLEAN :
       IF ok
       THEN /\ saveMessage(CallMessage("assistant", "text", sess[c].turns[t].timestampMs))
            /\ Put(c, [SetTurn(synthesizeAndPlay(NoteAfter(sess[c], t, "tts")), t, "tts", <<>>)
                         EXCEPT !.turns[t].sid = NextSynthesisId(sess[c])])
       ELSE /\ Put(c, llmCatch(sess[c], t))
            /\ UNCHANGED call
  /\ UNCHANGED <<now, procUp, assistant, sessions, shutdown, carrier>>

TtsReturn(c, t) ==
  /\ procUp
  /\ sess[c].turns[t].pc = "tts"
  /\ \E ok \in BOOLEAN :
       LET sid == sess[c].turns[t].sid
           s == IF ok THEN ttsReturned(sess[c], sid)
                ELSE NoteFail(sess[c], ttsFailed(sess[c], sid), TtsStage(sess[c], sid))
       IN Put(c, SetTurn(IF sid \in s.transmitted THEN NoteAfter(s, t, "audio") ELSE s,
                         t, "done", <<>>))
  /\ UNCHANGED <<now, procUp, assistant, call, sessions, shutdown, carrier>>

\* llm.generate returns the single tool call transferCall with any arguments
LlmTransferReturn(c, t) ==
  /\ procUp
  /\ sess[c].turns[t].pc = "llm"
  /\ sess[c].turns[t].rounds < MaxLlmRounds - 1
  /\ \E args \in TransferArgs :
       Put(c, runToolCalls([sess[c] EXCEPT !.turns[t].rounds = @ + 1,
                                           !.turns[t].xargs = args],
                           t, <<"transferCall">>))
  /\ UNCHANGED <<now, procUp, assistant, call, sessions, shutdown, carrier>>

\* llm.generate returns a response without tool calls
LlmTextReturn(c, t) ==
  /\ procUp
  /\ sess[c].turns[t].pc = "llm"
  /\ \E r \in TextResponses :
       Put(c, llmReturned([sess[c] EXCEPT !.turns[t].rounds = @ + 1], t, r))
  /\ UNCHANGED <<now, procUp, assistant, call, sessions, shutdown, carrier>>

TimerFire(c) ==
  /\ procUp
  /\ \E sid \in sess[c].timers : Put(c, timerFired(sess[c], sid))
  /\ UNCHANGED <<now, procUp, assistant, call, sessions, shutdown, carrier>>

\* ---------------------------------------------------------- socket events
\* ws delivers the client's frames while the socket is OPEN and, after the
\* server's close(), until the closing handshake completes
Receiving(s) == s.socket \in {"open", "closing"} /\ s.handlers

\* A binary frame arrives.  A frame that would start a turn beyond MaxTurns
\* is not sent.
ClientAudio(c) ==
  /\ procUp
  /\ Receiving(sess[c])
  /\ sess[c].frames < MaxFrames
  /\ \E data \in AudioFrames :
       LET after == handleAudioData(sess[c], data)
       IN /\ (\E i \in DOMAIN after.out : after.out[i] = "assistant.thinking") =>
               Cardinality(UsedTurns(sess[c])) < MaxTurns
          /\ Put(c, [NoteEndpoint(sess[c], ObserveAfterEnd(sess[c], after), data)
                       EXCEPT !.frames = @ + 1])
  /\ UNCHANGED <<now, procUp, assistant, call, sessions, shutdown, carrier>>

\* A binary frame of a client that goes on talking: up to MaxSpeechFrames frames
ClientSpeech(c) ==
  /\ procUp
  /\ Receiving(sess[c])
  /\ sess[c].frames < MaxSpeechFrames
  /\ \E data \in AudioFrames :
       LET after == handleAudioData(sess[c], data)
       IN /\ (\E i \in DOMAIN after.out : after.out[i] = "assistant.thinking") =>
               Cardinality(UsedTurns(sess[c])) < MaxTurns
          /\ Put(c, [NoteEndpoint(sess[c], ObserveAfterEnd(sess[c], after), data)
                       EXCEPT !.frames = @ + 1])
  /\ UNCHANGED <<now, procUp, assistant, call, sessions, shutdown, carrier>>

ControlTypes == {"end", "interrupt", "config"}

\* A text frame {type: end | interrupt | config} arrives, its type among `types`
ClientControl(c, types) ==
  /\ procUp
  /\ Receiving(sess[c])
  /\ \E type \in types :
       Put(c, ObserveAfterEnd(sess[c], handleControlMessage(sess[c], type)))
  /\ UNCHANGED <<now, procUp, assistant, call, sessions, shutdown, carrier>>

\* what an 'interrupt' message did to the session it arrived at
NoteInterrupt(before, after) ==
  [after EXCEPT
     !.ctlIn = @ \cup {before.state},
     !.ctlBad = @ \/ /\ before.state # "speaking"
                     /\ \/ after.state # before.state
                        \/ after.currentSynthesisId # before.currentSynthesisId
                        \/ after.audioBuffer # before.audioBuffer
                        \/ after.isSpeaking # before.isSpeaking
                        \/ after.silenceStart # before.silenceStart
                        \/ after.out # <<>>]

\* The text frame {type: 'interrupt'} arrives
ClientInterrupt(c) ==
  /\ procUp
  /\ Receiving(sess[c])
  /\ Put(c, NoteInterrupt(sess[c],
                          ObserveAfterEnd(sess[c],
                                          handleControlMessage(sess[c], "interrupt"))))
  /\ UNCHANGED <<now, procUp, assistant, call, sessions, shutdown, carrier>>

\* The client goes away: the socket's 'close' event
ClientDisconnect(c) ==
  /\ procUp
  /\ sess[c].socket = "open"
  /\ Put(c, onSocketClose([sess[c] EXCEPT !.socket = "closed"]))
  /\ UNCHANGED <<now, procUp, assistant, call, sessions, shutdown, carrier>>

\* The close handshake the server started completes: the 'close' event
SocketClosed(c) ==
  /\ procUp
  /\ sess[c].socket = "closing"
  /\ Put(c, onSocketClose([sess[c] EXCEPT !.socket = "closed"]))
  /\ UNCHANGED <<now, procUp, assistant, call, sessions, shutdown, carrier>>

\* ------------------------------------------------- registry and lifecycle
\* POST /sessions/:callId/end on a registered session (404 otherwise)
ApiEnd ==
  /\ procUp
  /\ sessions # NoSession
  /\ Put(sessions, end(sess[sessions], "api-request", "api"))
  /\ UNCHANGED <<now, procUp, assistant, call, sessions, shutdown, carrier>>

\* SIGINT: `for (const [callId, session] of sessions) await session.end(...)`,
\* then app.close(), prisma.$disconnect(), process.exit(0)
Sigint ==
  /\ procUp
  /\ shutdown = "idle"
  /\ IF sessions # NoSession /\ ~EndGuard(sess[sessions])
     THEN /\ Put(sessions, end(sess[sessions], "server-shutdown", "shutdown"))
          /\ shutdown' = "ending"
          /\ UNCHANGED procUp
     ELSE /\ IF sessions # NoSession
             THEN Put(sessions, end(sess[sessions], "server-shutdown", "shutdown"))
             ELSE UNCHANGED sess
          /\ shutdown' = "exited"
          /\ procUp' = FALSE
  /\ UNCHANGED <<now, assistant, call, sessions, carrier>>

\* SIGTERM: the engine installs no handler for it, so Node's default
\* disposition ends the process at once
Sigterm ==
  /\ procUp
  /\ procUp' = FALSE
  /\ shutdown' = "killed"
  /\ UNCHANGED <<now, assistant, call, sessions, sess, carrier>>

\* --------------------------------------------------------- specifications
\* the /ws/:callId handler with start(), and end() from its first await on
ConnNext(c) ==
  \/ Connect(c) \/ FindReturn(c) \/ UpdateReturn(c) \/ StartUpdateReturn(c)
  \/ EndUpdateReturn(c) \/ EndSaveReturn(c)
  \/ SocketClosed(c)

\* the first message of start() and the playback timers
FirstMessageNext(c) ==
  \/ StartSaveReturn(c) \/ StartTtsReturn(c)
  \/ TimerFire(c)

\* the user turns of a session
TurnNext(c) ==
  \/ ClientAudio(c)
  \/ \E t \in Turns :
       \/ SttReturn(c, t) \/ SaveUserReturn(c, t) \/ LlmReturn(c, t)
       \/ ToolReturn(c, t) \/ SaveToolReturn(c, t) \/ SaveAsstReturn(c, t)
       \/ TtsReturn(c, t)

\* The conversation on the one media WebSocket of a call (spec 4.6): the
\* client speaks, interrupts and listens; the call ends when the assistant
\* ends it (the endCall tool).
Next ==
  \/ Tick
  \/ ConnNext(1)
  \/ FirstMessageNext(1)
  \/ TurnNext(1)
  \/ ClientControl(1, {"interrupt", "config"})

Spec == Init /\ [][Next]_vars

\* The lifecycle of the session on the media WebSocket of a call: the first
\* message, and end() from the client ('end' message, disconnect), the
\* management endpoint and the shutdown handler.  No user speech.
LifecycleNext ==
  \/ Tick
  \/ ApiEnd
  \/ Sigint
  \/ ConnNext(1)
  \/ FirstMessageNext(1)
  \/ ClientControl(1, ControlTypes)
  \/ ClientDisconnect(1)

\* no audio arrives, so the assistant's audio settings are left at one value
InitLifecycle ==
  Init /\ assistant.interruptionEnabled /\ assistant.silenceTimeoutMs = 600

SpecLifecycle == InitLifecycle /\ [][LifecycleNext]_vars

\* The registry under several WebSocket connections for the same call id, for
\* an assistant without first message: connections, disconnects and the
\* management endpoint.
InitRegistry == InitLifecycle /\ ~assistant.firstMessage

RegistryNext ==
  \/ ApiEnd
  \/ \E c \in Conns : ConnNext(c) \/ ClientDisconnect(c)

SpecRegistry == InitRegistry /\ [][RegistryNext]_vars

\* A user turn of a session without first message in which the LLM answers
\* with a transferCall tool call, its arguments any of TransferArgs.
TransferNext ==
  \/ Tick
  \/ Connect(1) \/ FindReturn(1) \/ UpdateReturn(1) \/ StartUpdateReturn(1)
  \/ ClientAudio(1)
  \/ \E t \in Turns :
       \/ SttReturn(1, t) \/ SaveUserReturn(1, t) \/ LlmTransferReturn(1, t)
       \/ LlmReturn(1, t) \/ SaveAsstReturn(1, t) \/ TtsReturn(1, t)
  \/ TimerFire(1)

SpecTransfer == InitRegistry /\ [][TransferNext]_vars

\* The endpointing of a user utterance: audio frames on an established session
\* without first message, under a clock observed in fine steps.
EndpointingNext ==
  \/ Elapse
  \/ Connect(1) \/ FindReturn(1) \/ UpdateReturn(1) \/ StartUpdateReturn(1)
  \/ ClientAudio(1)

InitEndpointing == Init /\ ~assistant.firstMessage

SpecEndpointing == InitEndpointing /\ [][EndpointingNext]_vars

\* The user turns of a session whose assistant has no first message: speech,
\* the STT, LLM, tool and TTS stages, playback and barge-in.
InitTurns == Init /\ ~assistant.firstMessage /\ assistant.silenceTimeoutMs = 600

TurnsNext ==
  \/ Tick
  \/ ConnNext(1)
  \/ TimerFire(1)
  \/ TurnNext(1)
  \/ ClientControl(1, {"interrupt", "config"})

SpecTurns == InitTurns /\ [][TurnsNext]_vars

\* A user who speaks again while the pipeline of the previous utterance is
\* suspended: two utterances on a session without first message, an LLM that
\* answers with text or nothing, no provider failure other than those of the
\* actions below.
InitOverlap == InitTurns /\ assistant.interruptionEnabled

OverlapNext ==
  \/ Elapse \/ Tick
  \/ Connect(1) \/ FindReturn(1) \/ UpdateReturn(1) \/ StartUpdateReturn(1)
  \/ ClientSpeech(1)
  \/ TimerFire(1)
  \/ \E t \in Turns :
       \/ SttReturn(1, t) \/ SaveUserReturn(1, t) \/ LlmTextReturn(1, t)
       \/ SaveAsstReturn(1, t) \/ TtsReturn(1, t)

SpecOverlap == InitOverlap /\ [][OverlapNext]_vars

\* The engine under its termination signals: a session on the media WebSocket
\* of a call, SIGINT and SIGTERM.
ShutdownNext ==
  \/ Sigint
  \/ Sigterm
  \/ ConnNext(1)
  \/ FirstMessageNext(1)

SpecShutdown == InitLifecycle /\ [][ShutdownNext]_vars

\* start() on every WebSocket connection opened for the call id of an
\* assistant with a first message.
InitReconnect == InitLifecycle /\ assistant.firstMessage

ReconnectNext ==
  \E c \in Conns :
    \/ Connect(c) \/ FindReturn(c) \/ UpdateReturn(c) \/ StartUpdateReturn(c)
    \/ StartSaveReturn(c) \/ StartTtsReturn(c) \/ TimerFire(c)

SpecReconnect == InitReconnect /\ [][ReconnectNext]_vars

\* start() on the media WebSocket of a call, for an assistant with or without
\* first message and either firstMessageMode; the client may go away.
InitStart ==
  /\ now = T0
  /\ procUp = TRUE
  /\ assistant \in AssistantsAnyMode
  /\ assistant.interruptionEnabled /\ assistant.silenceTimeoutMs = 600
  /\ call = NewCall
  /\ sessions = NoSession
  /\ shutdown = "idle"
  /\ sess = [c \in Conns |-> NewConn]
  /\ carrier = NewCarrier

StartNext ==
  \/ ConnNext(1)
  \/ FirstMessageNext(1)
  \/ ClientDisconnect(1)

SpecStart == InitStart /\ [][StartNext]_vars

\* A client that sends 'interrupt' messages at any moment of a conversation
\* with an assistant without first message.
ControlNext ==
  \/ Tick
  \/ ConnNext(1)
  \/ TimerFire(1)
  \/ TurnNext(1)
  \/ ClientInterrupt(1)

SpecControl == InitTurns /\ [][ControlNext]_vars

\* The user turns of a session whose function tools fail in every way.
ToolsNext ==
  \/ Tick
  \/ ConnNext(1)
  \/ TimerFire(1)
  \/ ClientAudio(1)
  \/ \E t \in Turns :
       \/ SttReturn(1, t) \/ SaveUserReturn(1, t) \/ LlmReturn(1, t)
       \/ FunctionToolReturn(1, t) \/ SaveToolReturn(1, t) \/ SaveAsstReturn(1, t)
       \/ TtsReturn(1, t)

SpecTools == InitTurns /\ [][ToolsNext]_vars

\* The playback of the first message of a call whose user may speak during it
\* and may disconnect; the handler returns and the timers are not held back
\* for ever, the client is free to do nothing.
InitPlayback == Init /\ assistant.firstMessage /\ assistant.silenceTimeoutMs = 600

PlaybackNext ==
  \/ ConnNext(1)
  \/ FirstMessageNext(1)
  \/ ClientAudio(1)
  \/ ClientDisconnect(1)

SpecPlayback ==
  /\ InitPlayback /\ [][PlaybackNext]_vars
  /\ WF_vars(ConnNext(1)) /\ WF_vars(FirstMessageNext(1))

\* ------------------------------------------------------------------ telephony
\* metadata.twilioCallSid of the Call row, and the CallSid values of callbacks
twilioCallSid == "CA1"
CallSids == {"CA1", "CA2"}

\* CallStatus values of a Twilio status callback
TwilioCallStatuses ==
  {"queued", "initiated", "ringing", "in-progress", "completed", "busy",
   "failed", "no-answer", "canceled"}

\* CallDuration of a callback: absent, or a string of digits (its value)
CallDurations == {<<>>, <<0>>, <<3>>}

statusMap ==
  [k \in {"queued", "ringing", "in-progress", "completed", "busy", "failed",
          "no-answer", "canceled"} |->
     CASE k = "busy" -> "failed"
       [] k = "canceled" -> "failed"
       [] OTHER -> k]

\* statusMap[body.CallStatus] || body.CallStatus
MappedStatus(CallStatus) ==
  IF CallStatus \in DOMAIN statusMap THEN statusMap[CallStatus] ELSE CallStatus

\* a reply of a route: { ok: true }, a TwiML document (say + hangup, or
\* connect.stream to /ws/{callId}), or the framework's 500 for a rejection
\* the route does not catch
Reply(kind, callId) == [kind |-> kind, callId |-> callId]

\* POST /telephony/twilio/status arrives: prisma.call.findFirst is issued
TwilioStatus ==
  /\ carrier.pc = "idle" /\ carrier.handled < MaxCallbacks
  /\ \E sid \in CallSids, st \in TwilioCallStatuses, d \in CallDurations :
       carrier' = [carrier EXCEPT
                     !.pc = "status.find", !.handled = @ + 1,
                     !.reply = Reply("none", 0),
                     !.body = [CallSid |-> sid, CallStatus |-> st,
                               CallDuration |-> d]]
  /\ UNCHANGED <<now, procUp, assistant, call, sessions, shutdown, sess>>

\* findFirst returned: no row, reply {ok: true}; otherwise the update is issued
\* with the mapped status, the parsed duration and endedAt: new Date()
TwilioStatusFindReturn ==
  /\ carrier.pc = "status.find"
  /\ IF carrier.body.CallSid # twilioCallSid
       THEN carrier' = [carrier EXCEPT !.pc = "idle", !.reply = Reply("ok", 0)]
       ELSE LET status == MappedStatus(carrier.body.CallStatus)
            IN carrier' = [carrier EXCEPT
                 !.pc = "status.update",
                 !.data = [status |-> status,
                           durationSeconds |-> carrier.body.CallDuration,
                           endedAt |-> IF status \in {"completed", "failed"}
                                        THEN <<now>> ELSE <<>>]]
  /\ UNCHANGED <<now, procUp, assistant, call, sessions, shutdown, sess>>

\* prisma.call.update returned: the row carries the data; reply {ok: true}
TwilioStatusUpdateReturn ==
  /\ carrier.pc = "status.update"
  /\ call' = [call EXCEPT
               !.status = carrier.data.status,
               !.durationSeconds = IF carrier.data.durationSeconds = <<>> THEN @
                                   ELSE carrier.data.durationSeconds[1],
               !.endedAt = IF carrier.data.endedAt = <<>> THEN @
                           ELSE carrier.data.endedAt[1]]
  /\ carrier' = [carrier EXCEPT
                   !.pc = "idle", !.reply = Reply("ok", 0), !.statusWritten = TRUE,
                   !.unknownWrote = @ \/ carrier.body.CallSid # twilioCallSid]
  /\ UNCHANGED <<now, procUp, assistant, sessions, shutdown, sess>>

\* the row of a call the inbound route has created and bridged: Twilio reports
\* on it while nothing else writes it
InitCarrier ==
  /\ now = T0
  /\ procUp = TRUE
  /\ assistant \in Assistants
  /\ ~assistant.firstMessage /\ assistant.interruptionEnabled
  /\ assistant.silenceTimeoutMs = 600
  /\ call = [NewCall EXCEPT !.status = "ringing"]
  /\ sessions = NoSession
  /\ shutdown = "idle"
  /\ sess = [c \in Conns |-> NewConn]
  /\ carrier = NewCarrier

CarrierNext ==
  \/ Tick
  \/ TwilioStatus
  \/ TwilioStatusFindReturn
  \/ TwilioStatusUpdateReturn

SpecCarrier == InitCarrier /\ [][CarrierNext]_vars

\* ------------------------------------------------------------ inbound rings
\* What the PhoneNumber table holds for the dialled number and the provider of
\* the route: no row, or a row with its status, its inboundAssistant and its
\* inboundSquad (with the squad's entryAssistant).
DialledNumbers ==
  {n \in [row : BOOLEAN, active : BOOLEAN, inboundAssistant : BOOLEAN,
          inboundSquad : BOOLEAN] :
     ~n.row => (~n.active /\ ~n.inboundAssistant /\ ~n.inboundSquad)}

\* event_type values of a Telnyx webhook
TelnyxEventTypes == {"call.initiated", "call.answered"}

\* prisma.phoneNumber.findFirst({ where: { ..., status: 'active' } })
phoneNumber(n) == n.row /\ n.active

\* the row prisma.call.create of an inbound route inserts
InboundCall(provider) == [type |-> "inbound", status |-> "ringing", provider |-> provider]

\* POST /telephony/twilio/inbound arrives: the phone number lookup is issued
TwilioInbound ==
  /\ carrier.pc = "idle" /\ carrier.handled < MaxCallbacks
  /\ \E n \in DialledNumbers :
       carrier' = [carrier EXCEPT
                     !.pc = "twilio.find", !.handled = @ + 1,
                     !.reply = Reply("none", 0), !.created = FALSE,
                     !.body = [provider |-> "twilio",
                               event_type |-> "call.initiated", To |-> n]]
  /\ UNCHANGED <<now, procUp, assistant, call, sessions, shutdown, sess>>

\* the lookup returned: without a number or an assistant the TwiML says the
\* prompt and hangs up, otherwise prisma.call.create is issued; a rejected
\* lookup reaches the catch (error prompt and hangup)
TwilioInboundFindReturn ==
  /\ carrier.pc = "twilio.find"
  /\ \E ok \in BOOLEAN :
       LET n == carrier.body.To
       IN carrier' =
            IF ~ok THEN [carrier EXCEPT !.pc = "idle", !.reply = Reply("say.hangup", 0)]
            ELSE IF ~phoneNumber(n)
              THEN [carrier EXCEPT !.pc = "idle", !.reply = Reply("say.hangup", 0)]
            ELSE IF ~(n.inboundAssistant \/ n.inboundSquad)
              THEN [carrier EXCEPT !.pc = "idle", !.reply = Reply("say.hangup", 0)]
            ELSE [carrier EXCEPT !.pc = "twilio.create"]
  /\ UNCHANGED <<now, procUp, assistant, call, sessions, shutdown, sess>>

\* prisma.call.create returned: the TwiML connects the stream to /ws/{call.id};
\* a rejected create reaches the catch
TwilioInboundCreateReturn ==
  /\ carrier.pc = "twilio.create"
  /\ \E ok \in BOOLEAN :
       carrier' =
         IF ok
           THEN [carrier EXCEPT
                   !.pc = "idle", !.created = TRUE,
                   !.rows = Append(@, InboundCall("twilio")),
                   !.reply = Reply("connect.stream", Len(carrier.rows) + 1)]
           ELSE [carrier EXCEPT !.pc = "idle", !.reply = Reply("say.hangup", 0)]
  /\ UNCHANGED <<now, procUp, assistant, call, sessions, shutdown, sess>>

\* POST /telephony/telnyx/inbound arrives: for call.initiated the phone number
\* lookup is issued, every other event is acknowledged
TelnyxInbound ==
  /\ carrier.pc = "idle" /\ carrier.handled < MaxCallbacks
  /\ \E n \in DialledNumbers, e \in TelnyxEventTypes :
       carrier' = [carrier EXCEPT
                     !.pc = IF e = "call.initiated" THEN "telnyx.find" ELSE "idle",
                     !.handled = @ + 1, !.created = FALSE,
                     !.reply = IF e = "call.initiated" THEN Reply("none", 0)
                               ELSE Reply("ok", 0),
                     !.body = [provider |-> "telnyx", event_type |-> e, To |-> n]]
  /\ UNCHANGED <<now, procUp, assistant, call, sessions, shutdown, sess>>

\* the lookup returned: without a number or its inboundAssistant the reject
\* command is issued, otherwise the answer command; the route has no catch
TelnyxInboundFindReturn ==
  /\ carrier.pc = "telnyx.find"
  /\ \E ok \in BOOLEAN :
       LET n == carrier.body.To
       IN carrier' =
            IF ~ok THEN [carrier EXCEPT !.pc = "idle", !.reply = Reply("500", 0)]
            ELSE IF ~phoneNumber(n) \/ ~n.inboundAssistant
              THEN [carrier EXCEPT !.pc = "telnyx.reject"]
            ELSE [carrier EXCEPT !.pc = "telnyx.answer"]
  /\ UNCHANGED <<now, procUp, assistant, call, sessions, shutdown, sess>>

\* telnyxReject returned
TelnyxRejectReturn ==
  /\ carrier.pc = "telnyx.reject"
  /\ \E ok \in BOOLEAN :
       carrier' =
         IF ok
           THEN [carrier EXCEPT !.pc = "idle", !.commands = Append(@, "reject"),
                                !.reply = Reply("ok", 0)]
           ELSE [carrier EXCEPT !.pc = "idle", !.reply = Reply("500", 0)]
  /\ UNCHANGED <<now, procUp, assistant, call, sessions, shutdown, sess>>

\* telnyxAnswer returned: prisma.call.create is issued
TelnyxAnswerReturn ==
  /\ carrier.pc = "telnyx.answer"
  /\ \E ok \in BOOLEAN :
       carrier' =
         IF ok
           THEN [carrier EXCEPT !.pc = "telnyx.create",
                                !.commands = Append(@, "answer")]
           ELSE [carrier EXCEPT !.pc = "idle", !.reply = Reply("500", 0)]
  /\ UNCHANGED <<now, procUp, assistant, call, sessions, shutdown, sess>>

\* prisma.call.create returned: the route replies { ok: true }
TelnyxInboundCreateReturn ==
  /\ carrier.pc = "telnyx.create"
  /\ \E ok \in BOOLEAN :
       carrier' =
         IF ok
           THEN [carrier EXCEPT
                   !.pc = "idle", !.created = TRUE,
                   !.rows = Append(@, InboundCall("telnyx")),
                   !.reply = Reply("ok", 0)]
           ELSE [carrier EXCEPT !.pc = "idle", !.reply = Reply("500", 0)]
  /\ UNCHANGED <<now, procUp, assistant, call, sessions, shutdown, sess>>

InboundNext ==
  \/ TwilioInbound
  \/ TwilioInboundFindReturn
  \/ TwilioInboundCreateReturn
  \/ TelnyxInbound
  \/ TelnyxInboundFindReturn
  \/ TelnyxRejectReturn
  \/ TelnyxAnswerReturn
  \/ TelnyxInboundCreateReturn

SpecInbound == InitCarrier /\ [][InboundNext]_vars

\* ------------------------------------------------------------------ claims
Live(c) == sess[c].created /\ ~sess[c].isEnded

EndSettled(c) == sess[c].epc \in {"done", "failed"}

\* C1: end() is idempotent: once end(reason) has been invoked on a session
\* N >= 1 times, from whatever sources, and no end() is still running,
\* exactly one call.ended was emitted, the Call row was finalised exactly
\* once and the recordings were flushed exactly once.
C1_EndExactlyOnce ==
  \A c \in Conns :
    (sess[c].endInvocations >= 1 /\ EndSettled(c)) =>
      /\ sess[c].nCallEnded = 1
      /\ sess[c].nFinalised = 1
      /\ sess[c].nFlush = 1

\* C2: the events emitted to the client start with call.started and end with
\* call.ended: nothing is emitted before call.started, nothing after
\* call.ended.
C2_EventOrder ==
  \A c \in Conns :
    /\ sess[c].evFirst \in {"none", "call.started"}
    /\ ~sess[c].evAfterEnded

\* C3: audio of a synthesis whose id is not currentSynthesisId when its TTS
\* call returns is never transmitted on the socket.
C3_StaleAudioNeverSent ==
  \A c \in Conns :
    /\ ~sess[c].sentStale
    /\ sess[c].transmitted \cap sess[c].staleReturn = {}

\* a TTS call returned for a synthesis that an interruption or a newer
\* synthesis had overtaken, while another synthesis was transmitted
C3_Witness ==
  \E c \in Conns : sess[c].staleReturn # {} /\ sess[c].transmitted # {}

\* C4: every assistant.interrupted is emitted going from state speaking to
\* state listening, and no assistant.audio.done is emitted for the
\* interrupted synthesis, neither by its playback timer nor by its TTS catch.
C4_Interrupted ==
  \A c \in Conns :
    /\ sess[c].intFrom \subseteq {"speaking"}
    /\ sess[c].intTo \subseteq {"listening"}
    /\ sess[c].interrupted \cap sess[c].doneFor = {}

\* a synthesis was transmitted, then interrupted, and its playback timer has
\* fired
C4_Witness ==
  \E c \in Conns :
    \E sid \in sess[c].interrupted :
      sid \in sess[c].transmitted /\ sid \notin sess[c].timers

RECURSIVE Increasing(_)
Increasing(ids) ==
  Len(ids) < 2 \/ (ids[1] < ids[2] /\ Increasing(Tail(ids)))

\* C5: currentSynthesisId never decreases, every synthesis attempt gets an id
\* greater than all earlier attempts, and audio transmitted after an
\* interruption belongs to a synthesis with an id greater than the
\* interrupted one's.
C5_SynthesisIdOrder ==
  /\ [](\A c \in Conns : Increasing(sess[c].attempts) /\ ~sess[c].sentNotNewer)
  /\ [][\A c \in Conns :
          sess'[c].currentSynthesisId >= sess[c].currentSynthesisId]_vars

\* audio was transmitted after an interruption
C5_Witness ==
  \E c \in Conns : sess[c].sentAfterInt # {} /\ Len(sess[c].attempts) >= 2

\* C6: once maxCallDurationSeconds have elapsed since start(), the session is
\* ended with reason max-duration.
C6_MaxDurationEnforced ==
  \A c \in Conns :
    (sess[c].startTime # 0
       /\ now - sess[c].startTime >= 1000 * assistant.maxCallDurationSeconds) =>
      (sess[c].isEnded /\ sess[c].ereason = "max-duration")

\* C7: on a socket with a session, the client was sent call.ended before the
\* server closed the socket.
C7_EndedBeforeClose ==
  \A c \in Conns :
    (sess[c].created /\ sess[c].serverClosed) => sess[c].endedDelivered

\* C8: when the Call-row update of end() throws, the session is terminated all
\* the same: its socket is closed, it is out of the registry and the
\* session-end signal has fired.
C8_ForcedTermination ==
  \A c \in Conns :
    sess[c].epc = "failed" =>
      /\ sess[c].socket # "open"
      /\ sessions # c
      /\ sess[c].sessionPromise # "pending"

\* C9: at most one live session per call id, the registry entry refers to it,
\* and a session that is live and was registered stays in the registry.
C9_OneLiveSession ==
  /\ Cardinality({c \in Conns : Live(c)}) <= 1
  /\ \A c \in Conns : Live(c) => sessions = c

\* C10: once end() has been invoked on a session, no frame and no control
\* message from the socket changes its state, its currentSynthesisId or a
\* buffer, or makes it emit an event.
C10_DiscardedAfterEnd ==
  \A c \in Conns : sess[c].afterEnd = {}

\* C11: after a turn has handled an endCall tool call it handles no further
\* tool call, does not invoke the LLM again, emits no assistant.message and
\* produces no audio.
C11_EndCallTerminal ==
  \A c \in Conns : sess[c].afterEndCall = {}

\* C12: after a turn has handled a transferCall tool call it does not invoke
\* the LLM again, emits no assistant.message and starts no TTS synthesis.
C12_TransferTerminal ==
  \A c \in Conns : sess[c].afterTransfer \cap {"llm", "message", "tts", "audio"} = {}

\* C13: transfer.started carries the destination of the transferCall tool
\* call: for arguments {destination: D} the event data is {destination: D}.
C13_TransferDestination ==
  \A c \in Conns :
    (sess[c].xferSent # <<>> /\ sess[c].xferSent[1].destination # Undefined) =>
      sess[c].xferSent[2] = {<<"destination", sess[c].xferSent[1].destination>>}

\* C14 as stated: a throwing STT, LLM or TTS call does not end the session,
\* emits no assistant.message, and leaves the state listening.
C14_FailureToListening ==
  \A c \in Conns :
    /\ ~sess[c].failBad
    /\ \A f \in sess[c].failState : f[2] = "listening"

\* C14: a throwing STT, LLM or TTS call does not end the session and emits no
\* assistant.message; it leaves the state listening, except that the failure
\* of a synthesis that an interruption or a newer turn has overtaken leaves
\* the state as it is.
C14_FailureRecoverable ==
  \A c \in Conns :
    /\ ~sess[c].failBad
    /\ \A f \in sess[c].failState : f[1] # "tts.stale" => f[2] = "listening"

\* two provider calls of a session have failed, one of them the STT of a turn
\* that was started after an earlier failure
C14_Witness ==
  \E c \in Conns :
    /\ <<"stt", "listening">> \in sess[c].failState
    /\ <<"tts", "listening">> \in sess[c].failState
    /\ ~sess[c].isEnded

\* C15: when the STT call of a turn throws, the engine emits
\* assistant.audio.done before it returns to listening.
C15_SttFailureAudioDone ==
  \A c \in Conns : "stt" \notin sess[c].failSilent

\* C16: an empty or whitespace-only STT transcript appends no user message,
\* emits no transcript.final, persists nothing and does not invoke the LLM;
\* the turn is over and the state is back at listening.
C16_BlankTranscriptDropped ==
  \A c \in Conns :
    /\ ~sess[c].blankBad
    /\ \A t \in Turns :
         sess[c].turns[t].blank =>
           sess[c].turns[t].pc = "done" /\ sess[c].turns[t].rounds = 0

\* a turn's STT call returned a blank transcript
C16_Witness ==
  \E c \in Conns : \E t \in Turns :
    sess[c].turns[t].blank /\ sess[c].state = "listening"

\* C17: in normal listening mode, while isSpeaking, a silent frame emits
\* speech.ended and invokes processUserSpeech exactly when now - silenceStart
\* exceeds min(silenceTimeoutMs, 1200); the first silent frame after voice
\* only records silenceStart.
C17_EndpointingCap ==
  \A c \in Conns : ~sess[c].endpointBad

\* an utterance under a timeout configured above the cap was ended by a
\* silence shorter than the configured timeout
C17_Witness ==
  \E c \in Conns :
    /\ assistant.silenceTimeoutMs > SilenceCapMs
    /\ \E t \in Turns : sess[c].turns[t].pc = "stt"
    /\ now - sess[c].silenceStart < assistant.silenceTimeoutMs

FirstRows ==
  {i \in DOMAIN call.messages :
     call.messages[i] = CallMessage("assistant", "firstMessage", 0)}

\* C19: with a firstMessage configured, once a start() of the call has saved the
\* first message the call has exactly one CallMessage row with role assistant,
\* the first message as content and timestampMs 0, and it is the call's first
\* row.
C19_FirstMessageOnce ==
  \A c \in Conns :
    (assistant.firstMessage /\ sess[c].hpc \in {"start.tts", "start.wait", "returned"}) =>
       FirstRows = {1}

\* start() has run past its prisma.call.update
Started(c) == sess[c].hpc \in {"start.save", "start.tts", "start.wait", "returned"}

\* C20: unless a firstMessage is configured and the mode is
\* assistant-speaks-first, start() appends no assistant message, emits no
\* assistant.message and performs no synthesis, and a session that has not
\* been ended stays listening.
C20_SpeaksFirstOnly ==
  \A c \in Conns :
    (Started(c) /\ ~(assistant.firstMessage
                      /\ assistant.firstMessageMode = "assistant-speaks-first")) =>
       /\ ~sess[c].startSpoke
       /\ sess[c].attempts = <<>>
       /\ (sess[c].endInvocations = 0 => sess[c].state = "listening")

\* C21: on a completed call whose started-at is set, the persisted
\* durationSeconds is floor((endedAt - startedAt) / 1000) and is not negative.
C21_DurationMatches ==
  (call.status = "completed" /\ call.startedAt # 0) =>
     /\ call.durationSeconds = Floor1000(call.endedAt - call.startedAt)
     /\ call.durationSeconds >= 0

\* C22: between any two consecutive assistant.message events of a call there
\* is at least one transcript.final event.
C22_FinalBetweenMessages == \A c \in Conns : ~sess[c].messageBad

\* C23: once a termination signal (SIGINT or SIGTERM) has stopped the engine,
\* the registry is empty and every session that was created has emitted
\* exactly one call.ended, with reason server-shutdown.
C23_ShutdownEndsSessions ==
  shutdown \in {"exited", "killed"} =>
     /\ sessions = NoSession
     /\ \A c \in Conns :
          sess[c].created =>
             sess[c].nCallEnded = 1 /\ sess[c].ereason = "server-shutdown"

\* the last entry before position i that is not a tool message (0: none); the
\* tool messages of one response follow each other
Originator(messages, i) ==
  LET before == {j \in 1..(i - 1) : messages[j] # "tool"}
  IN IF before = {} THEN 0 ELSE CHOOSE j \in before : \A k \in before : k <= j

\* C24: the history of a session begins with its only system entry, and every
\* tool message is preceded by the assistant message that asked for the tool
\* call.
C24_HistoryShape ==
  \A c \in Conns :
    LET messages == sess[c].messages
    IN sess[c].created =>
         /\ messages[1] = "system"
         /\ \A i \in 2..Len(messages) : messages[i] # "system"
         /\ \A i \in 1..Len(messages) :
              messages[i] = "tool" =>
                 /\ Originator(messages, i) # 0
                 /\ messages[Originator(messages, i)] = "assistant"

\* the pipelines (processUserSpeech / generateResponse / synthesizeAndPlay runs)
\* of a session that are suspended on an await
Suspended(s) == {t \in Turns : s.turns[t].pc \notin {"unused", "done"}}

\* C25: within one session at most one pipeline is in flight: while one is
\* suspended on a provider await no audio frame starts a second one.
C25_OnePipelineInFlight ==
  \A c \in Conns : Cardinality(Suspended(sess[c])) <= 1

\* the values of CallStatus
CallStatuses ==
  {"queued", "ringing", "in-progress", "completed", "failed", "no-answer", "busy"}

\* C26: the status of the Call row is always one of CallStatuses, and it is
\* in-progress once start() has run past its update, until end() is invoked.
C26_StatusInProgress ==
  /\ call.status \in CallStatuses
  /\ \A c \in Conns :
       (Started(c) /\ sess[c].endInvocations = 0) => call.status = "in-progress"

\* the statuses a carrier state is mapped to
MappedStatuses ==
  {"queued", "ringing", "in-progress", "completed", "failed", "no-answer"}

\* C27: once a status callback for a known call has been applied, the status
\* of the Call row is one of MappedStatuses, whatever CallStatus it carried;
\* a callback whose CallSid matches no call writes no row.
C27_StatusMapped ==
  /\ carrier.statusWritten => call.status \in MappedStatuses
  /\ ~carrier.unknownWrote

\* the dialled number is an active configured number with an inbound
\* assistant, its own or the entry assistant of its squad
HasInboundAssistant(n) ==
  n.row /\ n.active /\ (n.inboundAssistant \/ n.inboundSquad)

\* the last command Telnyx received is a reject
Rejected ==
  carrier.commands # <<>> /\ carrier.commands[Len(carrier.commands)] = "reject"

\* C28: when an inbound ring has been handled, a Call row (ringing, inbound)
\* was created for it and the reply bridges the media to /ws/{callId} of that
\* row exactly if the dialled number is active and has an inbound assistant,
\* its own or its squad's; otherwise no row was created and Twilio was told to
\* say a prompt and hang up, or the Telnyx call was rejected.
C28_InboundRing ==
  (/\ carrier.pc = "idle" /\ carrier.handled > 0
   /\ carrier.body.event_type = "call.initiated") =>
     IF HasInboundAssistant(carrier.body.To)
       THEN /\ carrier.created
            /\ carrier.rows[Len(carrier.rows)].status = "ringing"
            /\ carrier.rows[Len(carrier.rows)].type = "inbound"
            /\ carrier.reply = Reply("connect.stream", Len(carrier.rows))
       ELSE /\ ~carrier.created
            /\ carrier.body.provider = "twilio" => carrier.reply.kind = "say.hangup"
            /\ carrier.body.provider = "telnyx" => Rejected

\* a step of a session from s to n that the turn-taking table permits: the
\* LLM returned and its pipeline finished (empty content, also after tool
\* calls), a playback timer fired, assistant.interrupted was emitted
TableStep(s, n) ==
  \/ n.state = s.state
  \/ s.state = "idle" /\ n.state \in {"listening", "speaking"}
  \/ s.state = "listening" /\ n.state = "thinking"
  \/ s.state = "thinking" /\ n.state = "speaking"
  \/ /\ s.state = "thinking" /\ n.state = "listening"
     /\ \E t \in Turns : s.turns[t].pc = "llm" /\ n.turns[t].pc = "done"
  \/ /\ s.state = "speaking" /\ n.state = "listening"
     /\ (n.timers # s.timers \/ n.interrupted # s.interrupted)

\* C29: the state of a session changes only by a transition of the
\* turn-taking table; a voiced frame moves it to listening only as an
\* interruption of speaking.
C29_TableOnly == [][\A c \in Conns : TableStep(sess[c], sess'[c])]_vars

\* C30: the state is thinking only while a pipeline is in flight: when
\* generateResponse has completed, also on a response with empty content and
\* no tool calls, the session has left thinking.
C30_LeavesThinking ==
  \A c \in Conns : sess[c].state = "thinking" => Suspended(sess[c]) # {}

\* C31: when the playback timer of a transmitted synthesis fires and the
\* synthesis is neither interrupted nor superseded, the state becomes
\* listening, isSpeaking and the input buffer are cleared and the one
\* assistant.audio.done of the synthesis is emitted; when the state is no
\* longer speaking or the id is no longer current, the timer changes nothing.
\* The timer of sid fires in a step that takes sid out of timers.
C31_TimerCompletes ==
  [][\A c \in Conns : \A sid \in sess[c].timers :
       sid \notin sess'[c].timers =>
         /\ (/\ sid \in sess[c].transmitted
             /\ sid \notin sess[c].interrupted
             /\ sid = sess[c].currentSynthesisId) =>
               /\ sess'[c].state = "listening"
               /\ ~sess'[c].isSpeaking
               /\ sess'[c].audioBuffer = 0
               /\ sid \notin sess[c].doneFor /\ sid \in sess'[c].doneFor
         /\ (sess[c].state # "speaking" \/ sid # sess[c].currentSynthesisId) =>
               sess'[c] = [sess[c] EXCEPT !.timers = @ \ {sid}]]_vars

\* C32: an 'interrupt' control message that arrives while the state is not
\* speaking leaves state, currentSynthesisId, the input buffer, isSpeaking and
\* silenceStart as they are and emits no event.
C32_InterruptNoop == \A c \in Conns : ~sess[c].ctlBad

C32_Witness ==
  \E c \in Conns : {"listening", "thinking", "speaking"} \subseteq sess[c].ctlIn

\* C33: the assistant-recording buffer holds each synthesis audio that was
\* sent on the socket exactly once: as many chunks as transmitted syntheses.
C33_RecordedOnce ==
  \A c \in Conns :
    sess[c].assistantAudioChunks = Cardinality(sess[c].transmitted)

\* C34: the execution of a function tool that fails (unknown name, no
\* serverUrl, a response that is not 2xx, a network error, the timeout) returns
\* an object {error: message}; the session emits tool.result, appends the tool
\* message and goes on with the turn, and the call is not ended by it.
C34_ToolErrorIsData == \A c \in Conns : ~sess[c].toolErrBad

C34_Witness ==
  \E c \in Conns : \E t \in Turns :
     /\ "timeout" \in sess[c].toolErrSeen
     /\ sess[c].turns[t].invoked = 2
     /\ ~sess[c].isEnded

\* C35: a client disconnect after the session was registered leads to
\* end("client-disconnect") and to the removal of the session from the
\* registry: the session does not come to rest without them. At rest: the
\* client closed the socket, start() awaits the session-end signal, no end()
\* is running and no timer is pending.
C35_DisconnectEnds ==
  \A c \in Conns :
    (/\ sess[c].created
     /\ sess[c].socket = "closed" /\ ~sess[c].serverClosed
     /\ sess[c].hpc = "start.wait"
     /\ sess[c].epc \in {"none", "done", "failed"}
     /\ sess[c].timers = {}) =>
       /\ sess[c].isEnded /\ sess[c].ereason = "client-disconnect"
       /\ sessions # c

\* C36: start() returns only after end() was invoked, and it does not stay
\* suspended on the session-end signal of a session whose end() has finished.
C36_StartReturnsOnEnd ==
  \A c \in Conns :
    /\ sess[c].hpc = "returned" => sess[c].endInvocations > 0
    /\ (procUp /\ EndSettled(c)) => sess[c].hpc # "start.wait"

\* C37: speech.started and speech.ended alternate, beginning with
\* speech.started: no speech.started is emitted while the previous one has
\* not been followed by speech.ended.
C37_SpeechAlternates == \A c \in Conns : ~sess[c].speechBad

\* C38: the assistant.speaking of a synthesis whose audio went out is
\* eventually followed by the assistant.audio.done or the
\* assistant.interrupted of that synthesis, or by call.ended (here for the
\* synthesis of the first message).
C38_SpeakingFollowed ==
  \A c \in Conns :
    (sess[c].startSid \in sess[c].transmitted) ~>
       \/ sess[c].startSid \in sess[c].doneFor
       \/ sess[c].startSid \in sess[c].interrupted
       \/ sess[c].nCallEnded > 0

\* C39: once the Call row has status completed, no step sets its status to
\* one that is not terminal (completed, failed, no-answer, busy).
C39_CompletedAbsorbing ==
  [][call.status = "completed" =>
       call'.status \in {"completed", "failed", "no-answer", "busy"}]_vars

\* C40: a turn that has reached the LLM and is over has invoked it once per
\* response with tool calls plus once more, and when no pipeline is in flight
\* it has left the session in speaking or in listening.
C40_ToolLoopTerminates ==
  \A c \in Conns : \A t \in Turns :
    (sess[c].turns[t].pc = "done" /\ sess[c].turns[t].invoked > 0) =>
       /\ sess[c].turns[t].invoked = sess[c].turns[t].loops + 1
       /\ Suspended(sess[c]) = {} => sess[c].state \in {"speaking", "listening"}

====
